---- MODULE Spec2Model ----
(***************************************************************************)
(* Model of src/utils.ts: the client-side helpers of the coin-flip game    *)
(* (guess input, handleTransaction, initializeGame, instruction builders,  *)
(* ensureEscrowFunded), run against a model of the network (RPC calls,     *)
(* transactions in flight) and of the on-chain game program.               *)
(***************************************************************************)
EXTENDS Integers, Sequences, FiniteSets, TLC

VARIABLES
  chain,   \* on-chain accounts: player state, escrow and player balances, oracle
  txs,     \* transactions handed to the network, by signature
  cl,      \* one call frame per client: the exported function running and its locals
  drifts   \* how often a third party has changed the escrow balance so far

vars == <<chain, txs, cl, drifts>>

-----------------------------------------------------------------------------
(* Bounds of the model *)

\* signatures (transactions) the network tracks at one time
MaxSigs == 1

\* a small rent-exemption threshold, beside the real zero-size figure
SmallRent == 2

\* how many times a party other than the funder changes the escrow balance
MaxDrift == 2

Procs == {"c1", "c2"}
Main == "c1"
Sigs == 1..MaxSigs
Rngs == {"r1", "r2"}
Player == "player"
Escrow == "escrow"

-----------------------------------------------------------------------------
(* Strings, as sequences of characters, for the guess input *)

Str(s) == [defined |-> TRUE, s |-> s]
Undefined == [defined |-> FALSE, s |-> <<>>]

Whitespace == {" ", "\t", "\n"}

LowerOf(c) ==
  CASE c = "H" -> "h" [] c = "E" -> "e" [] c = "A" -> "a" [] c = "D" -> "d"
    [] c = "S" -> "s" [] c = "T" -> "t" [] c = "I" -> "i" [] c = "L" -> "l"
    [] OTHER -> c

\* String.prototype.toLowerCase
toLowerCase(s) == [i \in 1..Len(s) |-> LowerOf(s[i])]

RECURSIVE TrimStart(_)
TrimStart(s) ==
  IF s # <<>> /\ Head(s) \in Whitespace THEN TrimStart(Tail(s)) ELSE s

RECURSIVE TrimEnd(_)
TrimEnd(s) ==
  IF s # <<>> /\ s[Len(s)] \in Whitespace
    THEN TrimEnd(SubSeq(s, 1, Len(s) - 1)) ELSE s

\* String.prototype.trim
trim(s) == TrimEnd(TrimStart(s))

heads == <<"h", "e", "a", "d", "s">>
tails == <<"t", "a", "i", "l", "s">>

\* what a user may type, as argument or at the prompt
GuessInputs ==
  { heads, tails,
    <<"H", "e", "a", "d", "s">>,
    <<"H", "e", "a", "d", "s", " ">>,
    <<"H", "E", "A", "D", "S">>,
    <<" ", "h", "e", "a", "d", "s">>,
    <<"h", "e", "a", "d", "s", "\n">>,
    <<"T", "a", "i", "l", "s">>,
    <<"T", "A", "I", "L", "S">>,
    <<"\t", "t", "a", "i", "l", "s", " ">>,
    <<"t", "a", "i", "l", "s", " ">>,
    <<"h", "e", "a", "d">>,
    <<"h", "e", "a", "d", " ", "s">>,
    <<"t", "a", "i", "l">>,
    <<"e", "d", "g", "e">>,
    <<" ">>,
    <<>> }

\* JavaScript's !x for a string or undefined
Falsy(v) == ~v.defined \/ v.s = <<>>

-----------------------------------------------------------------------------
(* Instructions and their builders *)

NoIx ==
  [kind |-> "none", argRng |-> "none", acctRng |-> "none", guess |-> FALSE,
   bump |-> 0, from |-> "none", to |-> "none", lamports |-> 0]

\* myProgram.methods.initialize().accounts({...}).instruction()
initializeInstruction ==
  [NoIx EXCEPT !.kind = "initialize"]

\* a variant that names the guess the caller did not make
createCoinFlipInstructionOtherGuess(rngKpPublicKey, userGuess) ==
  [NoIx EXCEPT !.kind = "coinFlip", !.argRng = rngKpPublicKey,
               !.guess = ~userGuess, !.acctRng = rngKpPublicKey]

\* myProgram.methods.coinFlip(rngKpPublicKey, userGuess).accounts({...})
createCoinFlipInstruction(rngKpPublicKey, userGuess) ==
  [NoIx EXCEPT !.kind = "coinFlip", !.argRng = rngKpPublicKey,
               !.guess = userGuess, !.acctRng = rngKpPublicKey]

\* myProgram.methods.settleFlip(escrowBump).accounts({...})
settleFlipInstruction(escrowBump, rngKpPublicKey) ==
  [NoIx EXCEPT !.kind = "settleFlip", !.bump = escrowBump,
               !.acctRng = rngKpPublicKey]

\* SystemProgram.transfer({fromPubkey, toPubkey, lamports})
SystemTransfer(fromPubkey, toPubkey, lamports) ==
  [NoIx EXCEPT !.kind = "transfer", !.from = fromPubkey, !.to = toPubkey,
               !.lamports = lamports]

\* the escrow derivation nonce a caller passes to settleFlip
EscrowBumps == {255}

-----------------------------------------------------------------------------
(* The on-chain side: the game program and the system program *)

\* lamports one round puts at stake
Wager == 1

OutcomeOf(guess) == IF guess THEN "heads" ELSE "tails"

\* a variant of the program that takes a coin flip in any player state
RejectsFlipAnyState(ix, c) ==
  CASE ix.kind = "initialize" -> c.playerState # "Uninitialized"
    [] ix.kind = "coinFlip" ->
         \/ c.rng[ix.acctRng] # "unrevealed"
         \/ ix.argRng # ix.acctRng
         \/ c.playerBal < Wager
    [] ix.kind = "settleFlip" ->
         \/ c.playerState # "FlipRequested"
         \/ ix.acctRng # c.boundRng
         \/ c.rng[ix.acctRng] = "unrevealed"
         \/ c.escrowBal < Wager
    [] ix.kind = "transfer" -> c.playerBal < ix.lamports
    [] OTHER -> TRUE

\* the program (or the runtime) rejects instruction ix in on-chain state c
Rejects(ix, c) ==
  CASE ix.kind = "initialize" -> c.playerState # "Uninitialized"
    [] ix.kind = "coinFlip" ->
         \/ c.playerState \notin {"Initialized", "Settled"}
         \/ c.rng[ix.acctRng] # "unrevealed"
         \/ ix.argRng # ix.acctRng
         \/ c.playerBal < Wager
    [] ix.kind = "settleFlip" ->
         \/ c.playerState # "FlipRequested"
         \/ ix.acctRng # c.boundRng
         \/ c.rng[ix.acctRng] = "unrevealed"
         \/ c.escrowBal < Wager
    [] ix.kind = "transfer" -> c.playerBal < ix.lamports
    [] OTHER -> TRUE

\* the state after instruction ix is executed in state c (when not rejected)
Apply(ix, c) ==
  CASE ix.kind = "initialize" -> [c EXCEPT !.playerState = "Initialized"]
    [] ix.kind = "coinFlip" ->
         [c EXCEPT !.playerState = "FlipRequested", !.guess = ix.guess,
                   !.boundRng = ix.argRng,
                   !.playerBal = @ - Wager, !.escrowBal = @ + Wager]
    [] ix.kind = "settleFlip" ->
         IF c.rng[c.boundRng] = OutcomeOf(c.guess)
           THEN [c EXCEPT !.playerState = "Settled",
                          !.escrowBal = @ - Wager, !.playerBal = @ + Wager]
           ELSE [c EXCEPT !.playerState = "Settled"]
    [] ix.kind = "transfer" ->
         [c EXCEPT !.playerBal = @ - ix.lamports, !.escrowBal = @ + ix.lamports]
    [] OTHER -> c

\* a transaction's instructions run in order; the first rejection fails it
RECURSIVE TxFails(_, _)
TxFails(ixs, c) ==
  IF ixs = <<>> THEN FALSE
  ELSE IF Rejects(Head(ixs), c) THEN TRUE
  ELSE TxFails(Tail(ixs), Apply(Head(ixs), c))

RECURSIVE ApplyAll(_, _)
ApplyAll(ixs, c) ==
  IF ixs = <<>> THEN c ELSE ApplyAll(Tail(ixs), Apply(Head(ixs), c))

\* all or nothing: a failed transaction leaves the accounts as they were
Execute(ixs, c) == IF TxFails(ixs, c) THEN c ELSE ApplyAll(ixs, c)

-----------------------------------------------------------------------------
(* The network: commitment levels and transactions in flight *)

COMMITMENT == "confirmed"

\* the order of the commitment levels a transaction passes through
Level(status) ==
  CASE status = "processed" -> 1
    [] status = "confirmed" -> 2
    [] OTHER -> 0

NoTxRec == [status |-> "free", ixs |-> <<>>, err |-> FALSE, by |-> "none"]

FreeSigs == {s \in DOMAIN txs : txs[s].status = "free"}

-----------------------------------------------------------------------------
(* Call frames *)

ComputeUnitPrice == 75000

\* computeUnitLimitMultiple 1.3, in tenths
ComputeUnitLimitMultipleTenths == 13

NoOpts == [commitment |-> "none", skipPreflight |-> FALSE, maxRetries |-> 0]

\* the options a caller outside this module passes
TxOpts == [commitment : {COMMITMENT}, skipPreflight : BOOLEAN, maxRetries : {0}]

NoTx ==
  [ixs |-> <<>>, payer |-> "none", signers |-> {},
   computeUnitPrice |-> 0, computeUnitLimitMultiple |-> 0]

\* a variant that builds the transaction without compute-budget parameters
asV0TxNoBudget(ixs, payer, signers) ==
  [ixs |-> ixs, payer |-> payer, signers |-> signers,
   computeUnitPrice |-> 0, computeUnitLimitMultiple |-> 0]

\* sb.asV0Tx({connection, ixs, payer, signers, computeUnitPrice, computeUnitLimitMultiple})
asV0Tx(ixs, payer, signers) ==
  [ixs |-> ixs, payer |-> payer, signers |-> signers,
   computeUnitPrice |-> ComputeUnitPrice,
   computeUnitLimitMultiple |-> ComputeUnitLimitMultipleTenths]

IdleFrame ==
  [op |-> "idle", pc |-> "idle",
   ixs |-> <<>>, opts |-> NoOpts, tx |-> NoTx,
   sim |-> "none", sig |-> 0, confirmSig |-> 0, confirmLevel |-> "none",
   accountBalance |-> 0, minRentExemption |-> 0, amountToFund |-> 0,
   argv2 |-> Undefined, answer |-> <<>>, userGuessInput |-> Undefined,
   calls |-> <<>>, outcome |-> "none", threwAt |-> "none",
   retSig |-> 0, retGuess |-> "none", retKey |-> "none", exitCode |-> 0,
   diag |-> "none",
   entryExists |-> FALSE, entryRevealed |-> FALSE, simUnready |-> FALSE,
   interfered |-> FALSE, escrowAtReturn |-> -1, prevReturnBal |-> -1,
   preLandBal |-> -1, landedBal |-> -1,
   args |-> [rng |-> "none", guess |-> FALSE, bump |-> 0], retIx |-> NoIx]

\* a frame is free for a new call when nothing runs in it and the process lives
Free(f) == f.pc \in {"idle", "done"} /\ f.outcome # "exited"

\* the call invoked one more function of the connection
Called(f, name) == [f EXCEPT !.calls = Append(@, name)]

\* a variant in which the rejection is swallowed and the function goes on
ThrowAndGoOn(f, step) ==
  [Called(f, step) EXCEPT
     !.pc = CASE step = "build" -> "simulate"
              [] step = "simulate" -> "send"
              [] step = "send" -> "confirm"
              [] step = "confirm" -> "log"
              [] OTHER -> "done",
     !.threwAt = step]

\* an awaited call rejected: the exception leaves the async function
Throw(f, step) ==
  [Called(f, step) EXCEPT !.pc = "done", !.outcome = "threw", !.threwAt = step]

\* when client p starts anew it lets go of its signature: only a transaction
\* still pending stays with the network
Forget(p) ==
  [s \in DOMAIN txs |->
     IF txs[s].by = p /\ txs[s].status # "pending" THEN NoTxRec ELSE txs[s]]

-----------------------------------------------------------------------------
(* handleTransaction: build, simulate, send, confirm, log and return *)

\* a variant that submits right after the build, leaving the simulation out
HtNextNoSimulate(pc) ==
  CASE pc = "build" -> "send"
    [] pc = "send" -> "confirm"
    [] pc = "confirm" -> "log"
    [] OTHER -> "done"

\* a variant that returns after the simulation, submitting nothing
HtNextStopBeforeSend(pc) ==
  CASE pc = "build" -> "simulate"
    [] pc = "simulate" -> "log"
    [] OTHER -> "done"

\* a variant that submits again once the confirmation has resolved
HtNextResend(pc) ==
  CASE pc = "build" -> "simulate"
    [] pc = "simulate" -> "send"
    [] pc = "send" -> "confirm"
    [] pc = "confirm" -> "send"
    [] OTHER -> "done"

\* the statement that follows each awaited step when it resolves
HtNext(pc) ==
  CASE pc = "build" -> "simulate"
    [] pc = "simulate" -> "send"
    [] pc = "send" -> "confirm"
    [] pc = "confirm" -> "log"
    [] OTHER -> "done"

\* a variant that confirms at the level of the caller's options
ConfirmCommitmentOfOpts(txOpts) == txOpts.commitment

\* the commitment level handed to confirmTransaction
ConfirmCommitment(txOpts) == COMMITMENT

\* a caller outside this module runs a coin-flip or settle instruction
CallerIxs ==
  {<<createCoinFlipInstruction(r, g)>> : r \in Rngs, g \in BOOLEAN}
    \cup {<<settleFlipInstruction(b, r)>> : b \in EscrowBumps, r \in Rngs}

\* a settle instruction among ixs meets a player state that is not
\* FlipRequested, or a randomness account not yet revealed
HasUnreadySettle(ixs) ==
  \E i \in 1..Len(ixs) :
    /\ ixs[i].kind = "settleFlip"
    /\ \/ chain.playerState # "FlipRequested"
       \/ chain.rng[ixs[i].acctRng] = "unrevealed"

HasRevealedFlip(ixs) ==
  \E i \in 1..Len(ixs) :
    ixs[i].kind = "coinFlip" /\ chain.rng[ixs[i].acctRng] # "unrevealed"

CallHandleTransaction(p) ==
  /\ Free(cl[p])
  /\ \E ix \in CallerIxs, txOpts \in TxOpts :
       cl' = [cl EXCEPT ![p] =
                [IdleFrame EXCEPT !.op = "handleTransaction", !.pc = "build",
                                  !.ixs = ix, !.opts = txOpts,
                                  !.entryRevealed = HasRevealedFlip(ix)]]
  /\ txs' = Forget(p)
  /\ UNCHANGED <<chain, drifts>>

\* initializeGame: the Initialize instruction, run with its own options
CallInitializeGame(p) ==
  /\ Free(cl[p])
  /\ cl' = [cl EXCEPT ![p] =
              [IdleFrame EXCEPT !.op = "initializeGame", !.pc = "build",
                                !.ixs = <<initializeInstruction>>,
                                !.opts = [commitment |-> "processed",
                                          skipPreflight |-> TRUE,
                                          maxRetries |-> 0],
                                !.entryExists = chain.playerState # "Uninitialized"]]
  /\ txs' = Forget(p)
  /\ UNCHANGED <<chain, drifts>>

Build(p) ==
  /\ cl[p].pc = "build"
  /\ \/ cl' = [cl EXCEPT ![p] =
                 [Called(@, "build") EXCEPT
                    !.tx = asV0Tx(cl[p].ixs, Player, {Player}),
                    !.pc = HtNext("build")]]
     \/ cl' = [cl EXCEPT ![p] = Throw(@, "build")]
  /\ UNCHANGED <<chain, txs, drifts>>

\* simulateTransaction resolves with value.err set when the transaction would
\* fail; it rejects only when the request itself fails.  Its result is not read.
Simulate(p) ==
  /\ cl[p].pc = "simulate"
  /\ \/ cl' = [cl EXCEPT ![p] =
                 [Called(@, "simulate") EXCEPT
                    !.sim = IF TxFails(cl[p].tx.ixs, chain) THEN "err" ELSE "ok",
                    !.simUnready = HasUnreadySettle(cl[p].tx.ixs),
                    !.pc = HtNext("simulate")]]
     \/ cl' = [cl EXCEPT ![p] = Throw(@, "simulate")]
  /\ UNCHANGED <<chain, txs, drifts>>

\* sendTransaction: the node's preflight check, unless skipped, rejects a
\* transaction that would fail; otherwise the transaction is in flight
Send(p) ==
  /\ cl[p].pc = "send"
  /\ \/ /\ cl[p].opts.skipPreflight \/ ~TxFails(cl[p].tx.ixs, chain)
        /\ FreeSigs # {}
        /\ LET s == CHOOSE x \in FreeSigs : \A y \in FreeSigs : x <= y IN
             /\ txs' = [txs EXCEPT ![s] =
                          [status |-> "pending", ixs |-> cl[p].tx.ixs,
                           err |-> FALSE, by |-> p]]
             /\ \/ cl' = [cl EXCEPT ![p] =
                            [Called(@, "send") EXCEPT !.sig = s,
                                                      !.pc = HtNext("send")]]
                \/ cl' = [cl EXCEPT ![p] = Throw(@, "send")]
     \/ /\ ~cl[p].opts.skipPreflight
        /\ TxFails(cl[p].tx.ixs, chain)
        /\ cl' = [cl EXCEPT ![p] = Throw(@, "send")]
        /\ txs' = txs
     \/ /\ cl' = [cl EXCEPT ![p] = Throw(@, "send")]
        /\ txs' = txs
  /\ UNCHANGED <<chain, drifts>>

\* confirmTransaction(sig, COMMITMENT) resolves once the signature reached the
\* level, whatever the transaction's own result; it rejects on timeout or expiry
Confirm(p) ==
  /\ cl[p].pc = "confirm"
  /\ LET level == ConfirmCommitment(cl[p].opts) IN
       \/ /\ Level(txs[cl[p].sig].status) >= Level(level)
          /\ cl' = [cl EXCEPT ![p] =
                      [Called(@, "confirm") EXCEPT !.confirmLevel = level,
                                                   !.confirmSig = cl[p].sig,
                                                   !.pc = HtNext("confirm")]]
       \/ /\ Level(txs[cl[p].sig].status) < Level(level)
          /\ cl' = [cl EXCEPT ![p] =
                      [Throw(@, "confirm") EXCEPT !.confirmLevel = level,
                                                  !.confirmSig = cl[p].sig]]
  /\ UNCHANGED <<chain, txs, drifts>>

\* the escrow balance as a funding call leaves it (kept for the record)
LeftAt(f) == IF f.op = "ensureEscrowFunded" THEN chain.escrowBal ELSE -1

\* console.log and return: handleTransaction returns sig, the others nothing
Return(p) ==
  /\ cl[p].pc = "log"
  /\ cl' = [cl EXCEPT ![p] =
              [@ EXCEPT !.pc = "done", !.outcome = "returned",
                        !.retSig = IF cl[p].op = "handleTransaction"
                                     THEN cl[p].sig ELSE 0,
                        !.escrowAtReturn = LeftAt(cl[p])]]
  /\ UNCHANGED <<chain, txs, drifts>>

-----------------------------------------------------------------------------
(* The network and the oracle *)

\* a funding call that has read the balance and not yet returned
MidFunding(f) ==
  /\ f.op = "ensureEscrowFunded"
  /\ f.pc \notin {"idle", "done", "getBalance"}

\* the escrow balance changed under a funding call, by another's doing
Disturb(except, c) ==
  [q \in Procs |->
     IF MidFunding(cl[q]) /\ cl[q].sig # except /\ c.escrowBal # chain.escrowBal
       THEN [cl[q] EXCEPT !.interfered = TRUE] ELSE cl[q]]

\* the transfer of a funding call landed: the escrow balance it met and the
\* balance it left are kept for the record
Landed(s, c, frames) ==
  [q \in Procs |->
     IF frames[q].op = "ensureEscrowFunded" /\ frames[q].sig = s
       THEN [frames[q] EXCEPT !.preLandBal = chain.escrowBal,
                              !.landedBal = c.escrowBal]
       ELSE frames[q]]

\* some call still holds signature s
Held(s) == \E q \in Procs : cl[q].sig = s

\* the status of a signature is tracked for as long as some call holds it
Tracked(s, status, err) ==
  IF Held(s) THEN [txs EXCEPT ![s].status = status, ![s].err = err]
  ELSE [txs EXCEPT ![s] = NoTxRec]

\* a pending transaction is processed: executed, or failed and recorded so
Land(s) ==
  /\ txs[s].status = "pending"
  /\ chain' = Execute(txs[s].ixs, chain)
  /\ txs' = Tracked(s, "processed", TxFails(txs[s].ixs, chain))
  /\ cl' = Landed(s, Execute(txs[s].ixs, chain),
                  Disturb(s, Execute(txs[s].ixs, chain)))
  /\ UNCHANGED drifts

Advance(s) ==
  /\ txs[s].status = "processed"
  /\ txs' = Tracked(s, "confirmed", txs[s].err)
  /\ UNCHANGED <<chain, cl, drifts>>

\* a pending transaction expires without having been processed
Drop(s) ==
  /\ txs[s].status = "pending"
  /\ txs' = Tracked(s, "dropped", FALSE)
  /\ UNCHANGED <<chain, cl, drifts>>

\* the value each randomness account is committed to, hidden until revealed
Committed(r) == IF r = "r1" THEN "heads" ELSE "tails"

\* the oracle reveals the value of a randomness account
Reveal(r) ==
  /\ chain.rng[r] = "unrevealed"
  /\ chain' = [chain EXCEPT !.rng[r] = Committed(r)]
  /\ UNCHANGED <<txs, cl, drifts>>

Network == \E s \in DOMAIN txs : Land(s) \/ Advance(s) \/ Drop(s)

Oracle == \E r \in Rngs : Reveal(r)

-----------------------------------------------------------------------------
(* The game flow: one client, initializeGame and handleTransaction *)

InitChain ==
  [playerState |-> "Uninitialized", guess |-> FALSE, boundRng |-> "none",
   rng |-> [r \in Rngs |-> "unrevealed"],
   escrowBal |-> 0, playerBal |-> SmallRent, rentExempt |-> SmallRent]

Init ==
  /\ chain = InitChain
  /\ txs = [s \in Sigs |-> NoTxRec]
  /\ cl = [p \in Procs |-> IdleFrame]
  /\ drifts = 0

Next ==
  \/ CallInitializeGame(Main)
  \/ CallHandleTransaction(Main)
  \/ Build(Main)
  \/ Simulate(Main)
  \/ Send(Main)
  \/ Confirm(Main)
  \/ Return(Main)
  \/ Network
  \/ Oracle

Spec == Init /\ [][Next]_vars

-----------------------------------------------------------------------------
(* Resuming a round left in FlipRequested: the caller retries Settle *)

\* the caller runs Settle again, naming the randomness account the round is
\* bound to
CallSettleRetry(p) ==
  /\ Free(cl[p])
  /\ chain.boundRng \in Rngs
  /\ \E b \in EscrowBumps, txOpts \in TxOpts :
       cl' = [cl EXCEPT ![p] =
                [IdleFrame EXCEPT
                   !.op = "handleTransaction", !.pc = "build",
                   !.ixs = <<settleFlipInstruction(b, chain.boundRng)>>,
                   !.opts = txOpts]]
  /\ txs' = Forget(p)
  /\ UNCHANGED <<chain, drifts>>

\* a flip has been requested and waits for the oracle
InitSettle ==
  /\ \E g \in BOOLEAN, r \in Rngs :
       chain = [InitChain EXCEPT !.playerState = "FlipRequested",
                                 !.guess = g, !.boundRng = r,
                                 !.escrowBal = Wager,
                                 !.playerBal = SmallRent - Wager]
  /\ txs = [s \in Sigs |-> NoTxRec]
  /\ cl = [p \in Procs |-> IdleFrame]
  /\ drifts = 0

NextSettle ==
  \/ CallSettleRetry(Main)
  \/ Build(Main)
  \/ Simulate(Main)
  \/ Send(Main)
  \/ Confirm(Main)
  \/ Return(Main)
  \/ Network
  \/ Oracle

\* the caller keeps retrying and every awaited call ends; the oracle reveals;
\* of the retries, some are built, simulated, submitted and processed
FairSettle ==
  /\ WF_vars(CallSettleRetry(Main))
  /\ WF_vars(Build(Main))
  /\ WF_vars(Simulate(Main))
  /\ WF_vars(Send(Main))
  /\ WF_vars(Confirm(Main))
  /\ WF_vars(Return(Main))
  /\ WF_vars(Oracle)
  /\ SF_vars(Build(Main) /\ cl'[Main].pc = "simulate")
  /\ SF_vars(Simulate(Main) /\ cl'[Main].pc = "send")
  /\ SF_vars(Send(Main) /\ txs' # txs)
  /\ SF_vars(\E s \in Sigs : Land(s))

SpecSettle == InitSettle /\ [][NextSettle]_vars /\ FairSettle

-----------------------------------------------------------------------------
(* ensureEscrowFunded *)

\* a variant that lets a shortfall of one lamport pass
NeedsFundingLax(accountBalance, requiredBalance) ==
  accountBalance + 1 < requiredBalance

\* if (accountBalance < requiredBalance)
NeedsFunding(accountBalance, requiredBalance) == accountBalance < requiredBalance

\* a variant that adds a margin of one lamport to the shortfall
AmountToFundMargin(requiredBalance, accountBalance) ==
  requiredBalance - accountBalance + 1

\* a variant that transfers the whole threshold, not the shortfall
AmountToFundWhole(requiredBalance, accountBalance) == requiredBalance

\* const amountToFund = requiredBalance - accountBalance
AmountToFund(requiredBalance, accountBalance) == requiredBalance - accountBalance

\* the frame is that of a funding call that returned, undisturbed, after a
\* transfer that succeeded or after finding the escrow funded
CleanFunding(f) ==
  /\ f.op = "ensureEscrowFunded"
  /\ f.outcome = "returned"
  /\ ~f.interfered
  /\ f.sig # 0 => ~txs[f.sig].err

CallEnsureEscrowFunded(p) ==
  /\ Free(cl[p])
  /\ \E txOpts \in TxOpts :
       cl' = [cl EXCEPT ![p] =
                [IdleFrame EXCEPT !.op = "ensureEscrowFunded",
                                  !.pc = "getBalance", !.opts = txOpts,
                                  !.prevReturnBal =
                                    IF CleanFunding(cl[p])
                                      THEN cl[p].escrowAtReturn ELSE -1]]
  /\ txs' = Forget(p)
  /\ UNCHANGED <<chain, drifts>>

\* connection.getBalance(escrowAccount)
GetBalance(p) ==
  /\ cl[p].pc = "getBalance"
  /\ \/ cl' = [cl EXCEPT ![p] =
                 [Called(@, "getBalance") EXCEPT
                    !.accountBalance = chain.escrowBal, !.pc = "getMinRent"]]
     \/ cl' = [cl EXCEPT ![p] = Throw(@, "getBalance")]
  /\ UNCHANGED <<chain, txs, drifts>>

\* connection.getMinimumBalanceForRentExemption(0)
GetMinRent(p) ==
  /\ cl[p].pc = "getMinRent"
  /\ \/ cl' = [cl EXCEPT ![p] =
                 [Called(@, "getMinimumBalanceForRentExemption") EXCEPT
                    !.minRentExemption = chain.rentExempt, !.pc = "check"]]
     \/ cl' = [cl EXCEPT ![p] = Throw(@, "getMinimumBalanceForRentExemption")]
  /\ UNCHANGED <<chain, txs, drifts>>

\* the comparison, and either the transfer instruction or the early return
CheckBalance(p) ==
  /\ cl[p].pc = "check"
  /\ LET requiredBalance == cl[p].minRentExemption IN
       \/ /\ NeedsFunding(cl[p].accountBalance, requiredBalance)
          /\ LET amount == AmountToFund(requiredBalance, cl[p].accountBalance) IN
               cl' = [cl EXCEPT ![p] =
                        [@ EXCEPT !.amountToFund = amount,
                                  !.ixs = <<SystemTransfer(Player, Escrow, amount)>>,
                                  !.pc = "build"]]
       \/ /\ ~NeedsFunding(cl[p].accountBalance, requiredBalance)
          /\ cl' = [cl EXCEPT ![p] =
                      [@ EXCEPT !.pc = "done", !.outcome = "returned",
                                !.escrowAtReturn = LeftAt(cl[p])]]
  /\ UNCHANGED <<chain, txs, drifts>>

\* someone else moves lamports into or out of the escrow account
EscrowDrift ==
  /\ drifts < MaxDrift
  /\ \E d \in {-1, 1} :
       /\ chain.escrowBal + d >= 0
       /\ chain' = [chain EXCEPT !.escrowBal = @ + d]
       /\ cl' = Disturb(-1, [chain EXCEPT !.escrowBal = @ + d])
  /\ drifts' = drifts + 1
  /\ UNCHANGED txs

\* the zero-size rent exemption the network may report
MinRents == {SmallRent, 890880}

InitFund ==
  /\ \E rent \in MinRents :
       \E bal \in {0, rent - 1, rent}, funds \in {1, rent} :
         chain = [InitChain EXCEPT !.playerState = "Initialized",
                                   !.rentExempt = rent,
                                   !.escrowBal = bal, !.playerBal = funds]
  /\ txs = [s \in Sigs |-> NoTxRec]
  /\ cl = [p \in Procs |-> IdleFrame]
  /\ drifts = 0

NextFund ==
  \/ CallEnsureEscrowFunded(Main)
  \/ GetBalance(Main)
  \/ GetMinRent(Main)
  \/ CheckBalance(Main)
  \/ Build(Main)
  \/ Simulate(Main)
  \/ Send(Main)
  \/ Confirm(Main)
  \/ Return(Main)
  \/ Network
  \/ EscrowDrift

SpecFund == InitFund /\ [][NextFund]_vars

-----------------------------------------------------------------------------
(* Two funders: each client calls ensureEscrowFunded once, on the same   *)
(* escrow, and nobody else touches it                                     *)

\* each funder may have a transfer of its own in flight
RaceSigs == 1..(MaxSigs + 1)

InitRace ==
  /\ \E bal \in {0, SmallRent - 1, SmallRent}, funds \in {SmallRent, 2 * SmallRent} :
       chain = [InitChain EXCEPT !.playerState = "Initialized",
                                 !.escrowBal = bal, !.playerBal = funds]
  /\ txs = [s \in RaceSigs |-> NoTxRec]
  /\ cl = [p \in Procs |-> IdleFrame]
  /\ drifts = 0

\* the one call of funder p
CallFunder(p) == cl[p].pc = "idle" /\ CallEnsureEscrowFunded(p)

NextRace ==
  \/ \E p \in Procs :
       \/ CallFunder(p)
       \/ GetBalance(p)
       \/ GetMinRent(p)
       \/ CheckBalance(p)
       \/ Build(p)
       \/ Simulate(p)
       \/ Send(p)
       \/ Confirm(p)
       \/ Return(p)
  \/ Network

SpecRace == InitRace /\ [][NextRace]_vars

-----------------------------------------------------------------------------
(* Every way this module submits a transaction: handleTransaction,         *)
(* initializeGame and ensureEscrowFunded, called in any order by one client *)

NextSubmit ==
  \/ CallInitializeGame(Main)
  \/ CallHandleTransaction(Main)
  \/ CallEnsureEscrowFunded(Main)
  \/ GetBalance(Main)
  \/ GetMinRent(Main)
  \/ CheckBalance(Main)
  \/ Build(Main)
  \/ Simulate(Main)
  \/ Send(Main)
  \/ Confirm(Main)
  \/ Return(Main)
  \/ Network

SpecSubmit == Init /\ [][NextSubmit]_vars

-----------------------------------------------------------------------------
(* getUserGuessFromCommandLine *)

\* let userGuessInput = process.argv[2]
CallGetUserGuess(p) ==
  /\ Free(cl[p])
  /\ \E arg \in {Undefined} \cup {Str(x) : x \in GuessInputs} :
       cl' = [cl EXCEPT ![p] =
                [IdleFrame EXCEPT !.op = "getUserGuessFromCommandLine",
                                  !.pc = "argv", !.argv2 = arg,
                                  !.userGuessInput = arg]]
  /\ txs' = Forget(p)
  /\ UNCHANGED <<chain, drifts>>

\* if (!userGuessInput) the answer at the prompt, trimmed and lower-cased
ReadGuess(p) ==
  /\ cl[p].pc = "argv"
  /\ \/ /\ Falsy(cl[p].userGuessInput)
        /\ \E typed \in GuessInputs :
             cl' = [cl EXCEPT ![p] =
                      [@ EXCEPT !.answer = typed,
                                !.userGuessInput = Str(toLowerCase(trim(typed))),
                                !.pc = "validate"]]
     \/ /\ ~Falsy(cl[p].userGuessInput)
        /\ cl' = [cl EXCEPT ![p] = [@ EXCEPT !.pc = "validate"]]
  /\ UNCHANGED <<chain, txs, drifts>>

\* a variant that lets every input through
isValidGuessAny(userGuessInput) == TRUE

isValidGuess(userGuessInput) ==
  userGuessInput = Str(heads) \/ userGuessInput = Str(tails)

\* process.exit(1) on an invalid guess, else userGuessInput === "heads"
ValidateGuess(p) ==
  /\ cl[p].pc = "validate"
  /\ \/ /\ ~isValidGuess(cl[p].userGuessInput)
        /\ cl' = [cl EXCEPT ![p] =
                    [@ EXCEPT !.pc = "done", !.outcome = "exited",
                              !.exitCode = 1]]
     \/ /\ isValidGuess(cl[p].userGuessInput)
        /\ cl' = [cl EXCEPT ![p] =
                    [@ EXCEPT !.pc = "done", !.outcome = "returned",
                              !.retGuess = IF cl[p].userGuessInput = Str(heads)
                                             THEN "true" ELSE "false"]]
  /\ UNCHANGED <<chain, txs, drifts>>

NextGuess ==
  \/ CallGetUserGuess(Main)
  \/ ReadGuess(Main)
  \/ ValidateGuess(Main)

SpecGuess == Init /\ [][NextGuess]_vars

-----------------------------------------------------------------------------
(* setupQueue *)

Queue == "queue"

CallSetupQueue(p) ==
  /\ Free(cl[p])
  /\ cl' = [cl EXCEPT ![p] =
              [IdleFrame EXCEPT !.op = "setupQueue", !.pc = "getDefaultQueue"]]
  /\ txs' = Forget(p)
  /\ UNCHANGED <<chain, drifts>>

\* sb.getDefaultQueue(rpcEndpoint), awaited outside the try block
GetDefaultQueue(p) ==
  /\ cl[p].pc = "getDefaultQueue"
  /\ \/ cl' = [cl EXCEPT ![p] =
                 [Called(@, "getDefaultQueue") EXCEPT !.pc = "loadData"]]
     \/ cl' = [cl EXCEPT ![p] = Throw(@, "getDefaultQueue")]
  /\ UNCHANGED <<chain, txs, drifts>>

\* a variant whose catch block logs and goes on to the return statement
OnLoadFailureSwallowed(f) ==
  [f EXCEPT !.threwAt = "loadData",
            !.diag = "Queue not found, ensure you are using devnet in your env",
            !.pc = "done", !.outcome = "returned", !.retKey = Queue]

\* catch (err): console.error(...) and process.exit(1)
OnLoadFailure(f) ==
  [f EXCEPT !.threwAt = "loadData",
            !.diag = "Queue not found, ensure you are using devnet in your env",
            !.pc = "done", !.outcome = "exited", !.exitCode = 1]

\* try { await queueAccount.loadData() }, then return queueAccount.pubkey
LoadData(p) ==
  /\ cl[p].pc = "loadData"
  /\ \/ cl' = [cl EXCEPT ![p] =
                 [Called(@, "loadData") EXCEPT !.pc = "done",
                                               !.outcome = "returned",
                                               !.retKey = Queue]]
     \/ cl' = [cl EXCEPT ![p] = OnLoadFailure(Called(@, "loadData"))]
  /\ UNCHANGED <<chain, txs, drifts>>

-----------------------------------------------------------------------------
(* The helpers a run starts with: the guess and the queue *)

NextCli ==
  \/ CallGetUserGuess(Main)
  \/ ReadGuess(Main)
  \/ ValidateGuess(Main)
  \/ CallSetupQueue(Main)
  \/ GetDefaultQueue(Main)
  \/ LoadData(Main)

SpecCli == Init /\ [][NextCli]_vars

-----------------------------------------------------------------------------
(* The instruction builders, called by one client while another client   *)
(* initializes the game and the oracle reveals                            *)

Submitter == "c2"

CallCreateCoinFlipInstruction(p) ==
  /\ Free(cl[p])
  /\ \E rngKpPublicKey \in Rngs, userGuess \in BOOLEAN :
       cl' = [cl EXCEPT ![p] =
                [IdleFrame EXCEPT !.op = "createCoinFlipInstruction",
                                  !.pc = "instruction",
                                  !.args = [rng |-> rngKpPublicKey,
                                            guess |-> userGuess, bump |-> 0]]]
  /\ UNCHANGED <<chain, txs, drifts>>

CallSettleFlipInstruction(p) ==
  /\ Free(cl[p])
  /\ \E escrowBump \in EscrowBumps, rngKpPublicKey \in Rngs :
       cl' = [cl EXCEPT ![p] =
                [IdleFrame EXCEPT !.op = "settleFlipInstruction",
                                  !.pc = "instruction",
                                  !.args = [rng |-> rngKpPublicKey,
                                            guess |-> FALSE,
                                            bump |-> escrowBump]]]
  /\ UNCHANGED <<chain, txs, drifts>>

\* return await myProgram.methods.<method>(...).accounts({...}).instruction()
Instruction(p) ==
  /\ cl[p].pc = "instruction"
  /\ \/ cl' = [cl EXCEPT ![p] =
                 [Called(@, "instruction") EXCEPT
                    !.pc = "done", !.outcome = "returned",
                    !.retIx =
                      IF cl[p].op = "createCoinFlipInstruction"
                        THEN createCoinFlipInstruction(cl[p].args.rng,
                                                       cl[p].args.guess)
                        ELSE settleFlipInstruction(cl[p].args.bump,
                                                   cl[p].args.rng)]]
     \/ cl' = [cl EXCEPT ![p] = Throw(@, "instruction")]
  /\ UNCHANGED <<chain, txs, drifts>>

NextBuild ==
  \/ CallCreateCoinFlipInstruction(Main)
  \/ CallSettleFlipInstruction(Main)
  \/ Instruction(Main)
  \/ CallInitializeGame(Submitter)
  \/ Build(Submitter)
  \/ Simulate(Submitter)
  \/ Send(Submitter)
  \/ Confirm(Submitter)
  \/ Return(Submitter)
  \/ Network
  \/ Oracle

SpecBuild == Init /\ [][NextBuild]_vars

-----------------------------------------------------------------------------
(* Properties of handleTransaction and initializeGame, under Spec *)

InCalls(f, name) == \E i \in 1..Len(f.calls) : f.calls[i] = name

IsPrefix(a, b) == Len(a) <= Len(b) /\ a = SubSeq(b, 1, Len(a))

HtSteps == <<"build", "simulate", "send", "confirm">>

RunsTransaction(f) == f.op \in {"handleTransaction", "initializeGame"}

C2_ReturnedSignatureIsConfirmed ==
  \A p \in Procs :
    (cl[p].op = "handleTransaction" /\ cl[p].outcome = "returned") =>
      /\ cl[p].retSig \in Sigs
      /\ txs[cl[p].retSig].by = p
      /\ txs[cl[p].retSig].ixs = cl[p].ixs
      /\ Level(txs[cl[p].retSig].status) >= Level("confirmed")
      /\ ~txs[cl[p].retSig].err

\* how many steps have been invoked when the call stands at pc
StepsBefore(pc) ==
  CASE pc = "build" -> 0
    [] pc = "simulate" -> 1
    [] pc = "send" -> 2
    [] pc = "confirm" -> 3
    [] OTHER -> 4

\* C3: the steps of a call are invoked in the order build, simulate, send,
\* confirm, each only after the one before it returned and none left out;
\* confirm is given the signature send returned; after a step threw no later
\* step is invoked.
C3_StepsInOrder ==
  \A p \in Procs :
    RunsTransaction(cl[p]) =>
      /\ IsPrefix(cl[p].calls, HtSteps)
      /\ cl[p].pc # "done" => Len(cl[p].calls) = StepsBefore(cl[p].pc)
      /\ cl[p].outcome = "returned" => cl[p].calls = HtSteps
      /\ cl[p].outcome = "threw" =>
           /\ cl[p].calls # <<>>
           /\ cl[p].calls[Len(cl[p].calls)] = cl[p].threwAt
      /\ InCalls(cl[p], "simulate") => cl[p].tx = asV0Tx(cl[p].ixs, Player, {Player})
      /\ InCalls(cl[p], "confirm") =>
           /\ cl[p].sig \in Sigs
           /\ cl[p].confirmSig = cl[p].sig
           /\ txs[cl[p].sig].by = p

C3_Witness ==
  /\ cl[Main].op = "handleTransaction"
  /\ cl[Main].outcome = "returned"
  /\ cl[Main].calls = HtSteps
  /\ cl[Main].confirmSig = cl[Main].retSig

\* C8 as stated: confirmTransaction waits for the level of the caller's
\* transaction options.
C8_ConfirmAtOptionsLevel ==
  \A p \in Procs :
    InCalls(cl[p], "confirm") => cl[p].confirmLevel = cl[p].opts.commitment

\* C8 amended: confirmTransaction always waits for the module's fixed level
\* COMMITMENT ("confirmed"), whatever level the caller's options name; a call
\* whose confirm step resolved holds a transaction that reached that level.
C8_ConfirmAtFixedLevel ==
  \A p \in Procs :
    InCalls(cl[p], "confirm") =>
      /\ cl[p].confirmLevel = COMMITMENT
      /\ cl[p].threwAt # "confirm" => txs[cl[p].sig].status = "confirmed"

C8_Witness ==
  /\ cl[Main].op = "initializeGame"
  /\ cl[Main].opts.commitment = "processed"
  /\ cl[Main].outcome = "returned"
  /\ cl[Main].confirmLevel = "confirmed"
  /\ txs[cl[Main].sig].status = "confirmed"

\* C9: initializeGame invoked for a player whose PlayerState already exists
\* fails at the simulation step and submits no transaction.
C9_SecondInitializeNotSubmitted ==
  \A p \in Procs :
    (cl[p].op = "initializeGame" /\ cl[p].entryExists) =>
      /\ ~InCalls(cl[p], "send")
      /\ cl[p].sig = 0
      /\ cl[p].outcome # "returned"

\* C10: a coin-flip instruction naming a randomness account that is already
\* revealed is stopped before submission: no transaction of the call is sent.
C10_RevealedFlipNotSubmitted ==
  \A p \in Procs :
    (cl[p].op = "handleTransaction" /\ cl[p].entryRevealed) =>
      /\ cl[p].sig = 0
      /\ cl[p].outcome # "returned"

\* C11: a Settle transaction simulated while PlayerState is not FlipRequested,
\* or while its randomness account is unrevealed, is not submitted and
\* handleTransaction does not return a signature.
C11_UnreadySettleNotSubmitted ==
  \A p \in Procs :
    (cl[p].op = "handleTransaction" /\ cl[p].simUnready) =>
      /\ cl[p].sim = "err"
      /\ cl[p].sig = 0
      /\ cl[p].outcome # "returned"

\* the moves of PlayerState the protocol allows
LifecycleMoves ==
  { <<"Uninitialized", "Initialized">>,
    <<"Initialized", "FlipRequested">>,
    <<"FlipRequested", "Settled">>,
    <<"Settled", "FlipRequested">> }

\* C12: PlayerState moves only along Uninitialized -> Initialized ->
\* FlipRequested -> Settled (and Settled -> FlipRequested for a new round);
\* while a flip is outstanding no other flip is accepted, and the guess and the
\* bound randomness account stay as requested until the flip is settled.
C12_PlayerStateLifecycle ==
  [][ /\ chain'.playerState # chain.playerState =>
           <<chain.playerState, chain'.playerState>> \in LifecycleMoves
      /\ chain.playerState = "FlipRequested" =>
           /\ chain'.guess = chain.guess
           /\ chain'.boundRng = chain.boundRng
      /\ chain'.playerState = "FlipRequested" => chain'.boundRng \in Rngs ]_vars

\* a second round is outstanding after a lost first one
C12_Witness ==
  /\ chain.playerState = "FlipRequested"
  /\ chain.escrowBal = 2 * Wager
  /\ \E r \in Rngs : r # chain.boundRng /\ chain.rng[r] # "unrevealed"

\* C15: a call that failed yields no signature; when the build or the
\* simulation threw, nothing was sent and the step changed neither the chain
\* nor the transactions in flight; when send or confirm threw, the transaction
\* may have been applied or not (C15_Witness, C15_WitnessNotApplied).
C15_FailureDeterminacy ==
  /\ [](\A p \in Procs :
          (RunsTransaction(cl[p]) /\ cl[p].threwAt # "none") =>
            /\ cl[p].outcome = "threw"
            /\ cl[p].retSig = 0
            /\ cl[p].threwAt \in {"build", "simulate"} =>
                 cl[p].sig = 0 /\ ~InCalls(cl[p], "send"))
  /\ [][ \A p \in Procs :
           (cl[p].pc \in {"build", "simulate"} /\ cl'[p] # cl[p]) =>
             chain' = chain /\ txs' = txs ]_vars

\* the caller got an error from confirm, and the transaction was applied
C15_Witness ==
  /\ RunsTransaction(cl[Main])
  /\ cl[Main].outcome = "threw"
  /\ cl[Main].threwAt = "confirm"
  /\ cl[Main].retSig = 0
  /\ txs[cl[Main].sig].status = "processed"
  /\ ~txs[cl[Main].sig].err
  /\ cl[Main].ixs[1].kind = "coinFlip"
  /\ chain.playerState = "FlipRequested"

\* the caller got the same error, and the transaction was never applied
C15_WitnessNotApplied ==
  /\ RunsTransaction(cl[Main])
  /\ cl[Main].outcome = "threw"
  /\ cl[Main].threwAt = "confirm"
  /\ cl[Main].retSig = 0
  /\ txs[cl[Main].sig].status = "dropped"
  /\ cl[Main].ixs[1].kind = "coinFlip"
  /\ chain.playerState = "Initialized"

-----------------------------------------------------------------------------
(* Recovery of a round left in FlipRequested, under SpecSettle *)

-----------------------------------------------------------------------------
(* Properties of ensureEscrowFunded, under SpecFund *)

Funding(f) == f.op = "ensureEscrowFunded"

\* the call has read both figures and compared them
Decided(f) ==
  /\ Funding(f)
  /\ f.pc \notin {"getBalance", "getMinRent", "check"}
  /\ f.threwAt \notin {"getBalance", "getMinimumBalanceForRentExemption"}

CountCalls(f, name) == Cardinality({i \in 1..Len(f.calls) : f.calls[i] = name})

\* C4: when ensureEscrowFunded returns normally the escrow balance is at least
\* the threshold the call read.  Stated for calls during which nobody else
\* touched the escrow balance, so that only the call's own transfer decides it.
C4_FundedOnReturn ==
  \A p \in Procs :
    (Funding(cl[p]) /\ cl[p].outcome = "returned" /\ ~cl[p].interfered) =>
      cl[p].escrowAtReturn >= cl[p].minRentExemption

\* C5: a call that reads a balance at or above the threshold builds, simulates
\* and sends nothing; a call that reads a balance short by D > 0 builds one
\* transaction holding the single instruction transfer(player -> escrow, D) and
\* sends it at most once; when that transfer succeeds undisturbed the balance
\* at return equals the threshold; and a call that reads the balance a clean
\* call has just left sends nothing.
C5_FundingExact ==
  \A p \in Procs :
    Decided(cl[p]) =>
      LET f == cl[p]
          D == f.minRentExemption - f.accountBalance IN
        /\ f.accountBalance >= f.minRentExemption =>
             /\ f.calls = <<"getBalance", "getMinimumBalanceForRentExemption">>
             /\ f.ixs = <<>> /\ f.tx = NoTx /\ f.sig = 0
             /\ f.outcome = "returned"
        /\ f.accountBalance < f.minRentExemption =>
             /\ f.amountToFund = D
             /\ f.ixs = <<SystemTransfer(Player, Escrow, D)>>
             /\ f.tx # NoTx => f.tx.ixs = f.ixs
             /\ CountCalls(f, "send") <= 1
             /\ f.sig # 0 => txs[f.sig].ixs = f.ixs /\ txs[f.sig].by = p
             /\ (f.outcome = "returned" /\ ~f.interfered /\ ~txs[f.sig].err) =>
                  f.escrowAtReturn = f.minRentExemption
        /\ (f.prevReturnBal >= 0 /\ f.accountBalance = f.prevReturnBal) =>
             f.ixs = <<>> /\ f.sig = 0

\* scenario B: balance 0, threshold 890,880, a transfer of exactly 890,880
C5_Witness ==
  /\ Funding(cl[Main])
  /\ cl[Main].outcome = "returned"
  /\ cl[Main].accountBalance = 0
  /\ cl[Main].minRentExemption = 890880
  /\ cl[Main].sig # 0
  /\ txs[cl[Main].sig].ixs = <<SystemTransfer(Player, Escrow, 890880)>>
  /\ ~txs[cl[Main].sig].err
  /\ cl[Main].escrowAtReturn = 890880

-----------------------------------------------------------------------------
(* Properties of every submitting call, under SpecSubmit *)

\* signature s names a transaction that this step put in flight
Submitted(s) == txs[s].status # "pending" /\ txs'[s].status = "pending"

\* C16: there is no client-side retry.  No call of handleTransaction,
\* initializeGame or ensureEscrowFunded invokes sendTransaction more than
\* once, whatever step fails; a step puts at most one transaction in flight,
\* and it is the transaction of a call that had not invoked sendTransaction
\* before, so no single call submits its transaction twice.
C16_NoClientRetry ==
  [][/\ \A p \in Procs : CountCalls(cl'[p], "send") <= 1
     /\ Cardinality({s \in Sigs : Submitted(s)}) <= 1
     /\ \A s \in Sigs :
          Submitted(s) =>
            LET q == txs'[s].by IN
              /\ cl[q].pc = "send"
              /\ ~InCalls(cl[q], "send")
              /\ InCalls(cl'[q], "send")
              /\ txs'[s].ixs = cl[q].tx.ixs]_vars

\* initializeGame submitted its Initialize transaction once and then failed
\* at the confirmation; the call ended there
C16_Witness ==
  /\ cl[Main].op = "initializeGame"
  /\ cl[Main].outcome = "threw"
  /\ cl[Main].threwAt = "confirm"
  /\ CountCalls(cl[Main], "send") = 1
  /\ \E s \in Sigs : txs[s].by = Main /\ txs[s].ixs = <<initializeInstruction>>

\* the transfer the funding call sent has landed and succeeded
TransferLanded(f) ==
  /\ Funding(f)
  /\ f.sig # 0
  /\ txs[f.sig].status \in {"processed", "confirmed"}
  /\ ~txs[f.sig].err

\* C18: the call reads the balance once and transfers exactly the threshold
\* less the balance read, with no margin; so the balance its transfer leaves
\* differs from the threshold by what others did to the escrow between the
\* read and the landing, and when they took lamports out the escrow is below
\* the threshold once the transfer has landed.
C18_NoMarginNoReread ==
  \A p \in Procs :
    TransferLanded(cl[p]) =>
      LET f == cl[p]
          T == f.minRentExemption IN
        /\ CountCalls(f, "getBalance") = 1
        /\ f.amountToFund = T - f.accountBalance
        /\ f.landedBal - T = f.preLandBal - f.accountBalance
        /\ f.preLandBal < f.accountBalance => f.landedBal < T

\* the balance fell after the read; the transfer landed, the call returned,
\* and the escrow is below the threshold
C18_Witness ==
  /\ TransferLanded(cl[Main])
  /\ cl[Main].outcome = "returned"
  /\ cl[Main].preLandBal < cl[Main].accountBalance
  /\ cl[Main].landedBal < cl[Main].minRentExemption
  /\ cl[Main].escrowAtReturn < cl[Main].minRentExemption
  /\ chain.escrowBal < chain.rentExempt

-----------------------------------------------------------------------------
(* Properties of two concurrent funders, under SpecRace *)

\* the funder returned, and the transfer it sent, if any, succeeded
FundedOk(f) ==
  /\ Funding(f)
  /\ f.outcome = "returned"
  /\ f.sig # 0 => (txs[f.sig].status \in {"processed", "confirmed"} /\ ~txs[f.sig].err)

\* C17: of two funders racing on one escrow, a funder that returns after a
\* successful transfer of the shortfall D leaves the escrow at the threshold
\* or, when the other funder's transfer of D landed too, at threshold + D;
\* a funder that returns without a transfer read a funded escrow.  Either way
\* the balance at return, and the balance ever after, is not below the
\* threshold.
C17_RaceOverfundsNeverUnderfunds ==
  \A p \in Procs :
    FundedOk(cl[p]) =>
      LET f == cl[p]
          T == f.minRentExemption
          D == T - f.accountBalance IN
        /\ f.escrowAtReturn >= T
        /\ chain.escrowBal >= T
        /\ f.sig # 0 => f.amountToFund = D /\ f.escrowAtReturn \in {T, T + D}
        /\ f.sig = 0 => f.accountBalance >= T

\* both funders read the balance short by D, both transfers of D landed:
\* the escrow holds threshold + D
C17_Witness ==
  /\ \A p \in Procs :
       /\ FundedOk(cl[p])
       /\ cl[p].sig # 0
       /\ cl[p].accountBalance < cl[p].minRentExemption
  /\ cl["c1"].sig # cl["c2"].sig
  /\ cl["c1"].amountToFund > 0
  /\ chain.escrowBal = chain.rentExempt + cl["c1"].amountToFund

-----------------------------------------------------------------------------
(* The transactions handed to sendTransaction, under SpecSubmit *)

\* the call is at sendTransaction or has invoked it
AtOrPastSend(f) == f.pc = "send" \/ InCalls(f, "send")

\* C19: every transaction handed to sendTransaction, by handleTransaction,
\* initializeGame or ensureEscrowFunded and under any transaction options,
\* was built with compute-unit price 75,000, compute-unit-limit multiplier
\* 1.3 (13 tenths) and the player as payer, from the instructions of the
\* call; the transaction in flight under the call's signature is that one.
C19_FixedComputeBudget ==
  \A p \in Procs :
    AtOrPastSend(cl[p]) =>
      /\ cl[p].tx.computeUnitPrice = 75000
      /\ cl[p].tx.computeUnitLimitMultiple = 13
      /\ cl[p].tx.payer = Player
      /\ cl[p].tx.ixs = cl[p].ixs
      /\ cl[p].sig # 0 => txs[cl[p].sig].ixs = cl[p].tx.ixs

\* a funding transfer was sent with the preflight check skipped
C19_Witness ==
  /\ Funding(cl[Main])
  /\ cl[Main].opts.skipPreflight
  /\ cl[Main].sig # 0
  /\ txs[cl[Main].sig].status = "pending"
  /\ cl[Main].tx.computeUnitPrice = 75000

\* a coin-flip transaction was sent by handleTransaction with the preflight
\* check in force
C19_WitnessHandle ==
  /\ cl[Main].op = "handleTransaction"
  /\ ~cl[Main].opts.skipPreflight
  /\ cl[Main].sig # 0
  /\ cl[Main].tx.computeUnitLimitMultiple = 13

-----------------------------------------------------------------------------
(* Properties of the instruction builders, under SpecBuild *)

Builds(f) == f.op \in {"createCoinFlipInstruction", "settleFlipInstruction"}

\* C20: createCoinFlipInstruction and settleFlipInstruction only build: no
\* step of theirs changes the on-chain state or the transactions in flight,
\* and they never simulate, send or confirm.  The coin-flip instruction
\* returned carries the caller's randomness key both as its argument and as
\* its randomnessAccountData account, and the caller's guess as given; the
\* settle instruction carries the caller's bump and randomness account.
C20_BuildersOnlyBuild ==
  [][\A p \in Procs :
       Builds(cl'[p]) =>
         LET f == cl'[p] IN
           /\ cl'[p] # cl[p] => (chain' = chain /\ txs' = txs)
           /\ \A i \in 1..Len(f.calls) : f.calls[i] = "instruction"
           /\ f.sig = 0 /\ f.tx = NoTx
           /\ (f.outcome = "returned" /\ f.op = "createCoinFlipInstruction") =>
                /\ f.retIx.kind = "coinFlip"
                /\ f.retIx.argRng = f.args.rng
                /\ f.retIx.acctRng = f.args.rng
                /\ f.retIx.guess = f.args.guess
           /\ (f.outcome = "returned" /\ f.op = "settleFlipInstruction") =>
                /\ f.retIx.kind = "settleFlip"
                /\ f.retIx.bump = f.args.bump
                /\ f.retIx.acctRng = f.args.rng]_vars

\* a coin-flip instruction for heads on r2 was built while the other
\* client's Initialize transaction was in flight
C20_Witness ==
  /\ cl[Main].op = "createCoinFlipInstruction"
  /\ cl[Main].outcome = "returned"
  /\ cl[Main].args = [rng |-> "r2", guess |-> TRUE, bump |-> 0]
  /\ cl[Main].retIx = createCoinFlipInstruction("r2", TRUE)
  /\ \E s \in Sigs : txs[s].status = "pending" /\ txs[s].by = Submitter

-----------------------------------------------------------------------------
(* Properties of getUserGuessFromCommandLine, under SpecGuess *)

Guessing(f) == f.op = "getUserGuessFromCommandLine"

\* what the user supplied: the argument, or the answer at the prompt
Supplied(f) == IF Falsy(f.argv2) THEN f.answer ELSE f.argv2.s

\* C6: whichever way the guess is supplied it is trimmed and lower-cased
\* before validation: an input that normalises to "heads" returns true, one
\* that normalises to "tails" returns false.
C6_NormalisedEitherWay ==
  \A p \in Procs :
    (Guessing(cl[p]) /\ cl[p].pc = "done") =>
      LET n == toLowerCase(trim(Supplied(cl[p]))) IN
        /\ n = heads => cl[p].outcome = "returned" /\ cl[p].retGuess = "true"
        /\ n = tails => cl[p].outcome = "returned" /\ cl[p].retGuess = "false"

\* C7: the call returns true exactly when the validated guess is "heads", false
\* exactly when it is "tails"; for any other input it returns nothing and the
\* process exits with code 1; the function touches neither the network nor
\* the chain.
C7_GuessResult ==
  \A p \in Procs :
    (Guessing(cl[p]) /\ cl[p].pc = "done") =>
      LET f == cl[p] IN
        /\ (f.outcome = "returned" /\ f.retGuess = "true")
             <=> f.userGuessInput = Str(heads)
        /\ (f.outcome = "returned" /\ f.retGuess = "false")
             <=> f.userGuessInput = Str(tails)
        /\ f.userGuessInput \notin {Str(heads), Str(tails)} =>
             f.outcome = "exited" /\ f.exitCode = 1 /\ f.retGuess = "none"
        /\ f.outcome = "exited" => f.exitCode = 1
        /\ f.calls = <<>>
        /\ \A s \in Sigs : txs[s] = NoTxRec
        /\ chain = InitChain

C7_Witness ==
  /\ Guessing(cl[Main])
  /\ cl[Main].outcome = "exited"
  /\ cl[Main].exitCode = 1
  /\ cl[Main].userGuessInput = Str(<<"e", "d", "g", "e">>)

-----------------------------------------------------------------------------
(* Properties of setupQueue, under SpecCli *)

\* C14: setupQueue returns the queue's public key only after loadData
\* succeeded; when loadData fails it prints the diagnostic and the process
\* exits with code 1, with no key returned and loadData not called again.
C14_QueueLoadedOrExit ==
  \A p \in Procs :
    (cl[p].op = "setupQueue" /\ cl[p].pc = "done") =>
      LET f == cl[p] IN
        /\ f.outcome = "returned" <=> f.retKey = Queue
        /\ f.outcome = "returned" =>
             /\ f.calls = <<"getDefaultQueue", "loadData">>
             /\ f.threwAt = "none"
        /\ f.threwAt = "loadData" =>
             /\ f.outcome = "exited" /\ f.exitCode = 1
             /\ f.diag = "Queue not found, ensure you are using devnet in your env"
             /\ f.retKey = "none"
             /\ CountCalls(f, "loadData") = 1

C14_Witness ==
  /\ cl[Main].op = "setupQueue"
  /\ cl[Main].threwAt = "loadData"
  /\ cl[Main].outcome = "exited"
  /\ cl[Main].exitCode = 1

====
